---- MODULE Spec2Model ----
(***************************************************************************)
(* Model of the pharmacokinetic simulator: the improved component          *)
(* (AdvancedPKSimulator with simulatePK, calculateMetrics and              *)
(* exportChartAsPNG) and the first component, whose concentration loop     *)
(* runs while rendering.                                                   *)
(*                                                                         *)
(* JavaScript numbers are modelled in fixed point, one unit per quantity:  *)
(*   time                 0.001 h                                          *)
(*   rate constants       1e-9 1/h   (so that epsilon = 1e-9 is 1)         *)
(*   volume               0.0001 L   (so that the floor 0.0001 is 1)       *)
(*   dose                 1 mg                                             *)
(*   bioavailability      0.01                                             *)
(*   number of doses      0.001 as a raw field value, 1 once parsed        *)
(*   concentration, band  0.01 mg/L                                        *)
(* A number is a record [kind, v]: a finite value v in the unit of its    *)
(* quantity, a finite value near Number.MAX_VALUE (1e308), Infinity, or    *)
(* NaN. The last three are values of their own because the code's          *)
(* comparisons, its || fallbacks and its products treat them apart.        *)
(***************************************************************************)
EXTENDS Integers, Sequences, FiniteSets, TLC

\* ------------------------------------------------------------ numbers

Num(x) == [kind |-> "fin", v |-> x]

NaN == [kind |-> "nan", v |-> 0]

Infinity == [kind |-> "inf", v |-> 0]

\* The number 1e308: finite, and above every other finite number of the model.
Huge == [kind |-> "huge", v |-> 0]

\* 1e308 * x overflows to Infinity when x is above Number.MAX_VALUE / 1e308,
\* about 1.79: the limit in units of 0.01.
HugeFactorLimit == 179

IsNaN(x) == x.kind = "nan"

Magnitude(x) == IF x.kind = "inf" THEN 2 ELSE IF x.kind = "huge" THEN 1 ELSE 0

Abs(x) == IF x < 0 THEN -x ELSE x

Min2(a, b) == IF a <= b THEN a ELSE b

Max2(a, b) == IF a >= b THEN a ELSE b

\* The text of an input element: empty, not a number, the numeral 1e308, or
\* a numeral whose value is v units of the field.
EmptyText == [kind |-> "empty", v |-> 0]

BadText == [kind |-> "text", v |-> 0]

HugeText == [kind |-> "1e308", v |-> 0]

Numeral(x) == [kind |-> "num", v |-> x]

\* Number(e.target.value): "" is 0, a text that is no numeral is NaN.
NumberOf(text) ==
    IF text.kind = "empty" THEN Num(0)
    ELSE IF text.kind = "text" THEN NaN
    ELSE IF text.kind = "1e308" THEN Huge
    ELSE Num(text.v)

\* parseFloat(x) of a number goes through String(x), which round-trips every
\* finite number; "NaN" parses to NaN and "Infinity" to Infinity.
parseFloat(x) ==
    IF x.kind = "nan" THEN NaN
    ELSE IF x.kind = "inf" THEN Infinity
    ELSE IF x.kind = "huge" THEN Huge
    ELSE Num(x.v)

\* parseInt(x, 10) of a number whose raw unit is 0.001: the digits before the
\* decimal point, that is truncation towards zero. String(1e308) is
\* "1e+308", whose leading digits are 1; "Infinity" has none.
parseInt(x) ==
    IF x.kind = "nan" \/ x.kind = "inf" THEN NaN
    ELSE IF x.kind = "huge" THEN Num(1)
    ELSE IF x.v >= 0 THEN Num(x.v \div 1000)
    ELSE Num(-((-x.v) \div 1000))

\* a || b on numbers: a when it is truthy (neither 0 nor NaN), else b.
OrElse(a, b) == IF IsNaN(a) \/ (a.kind = "fin" /\ a.v = 0) THEN b ELSE a

\* The relational operators: every comparison with NaN is false.
JsLt(a, b) ==
    /\ ~IsNaN(a)
    /\ ~IsNaN(b)
    /\ \/ Magnitude(a) < Magnitude(b)
       \/ a.kind = "fin" /\ b.kind = "fin" /\ a.v < b.v

JsGt(a, b) == JsLt(b, a)

JsLe(a, b) == ~IsNaN(a) /\ ~IsNaN(b) /\ ~JsLt(b, a)

JsGe(a, b) == JsLe(b, a)

MathMax(a, b) == IF IsNaN(a) \/ IsNaN(b) THEN NaN ELSE IF JsLt(a, b) THEN b ELSE a

MathMin(a, b) == IF IsNaN(a) \/ IsNaN(b) THEN NaN ELSE IF JsLt(b, a) THEN b ELSE a

\* a + b on numbers that are not negative.
JsAdd(a, b) ==
    IF IsNaN(a) \/ IsNaN(b) THEN NaN
    ELSE IF Magnitude(a) + Magnitude(b) >= 2 THEN Infinity
    ELSE IF Magnitude(a) + Magnitude(b) = 1 THEN Huge
    ELSE Num(a.v + b.v)

\* floor(a * b / c) without leaving 32 bits, for a >= 0, b >= 0, c > 0 and
\* (c - 1) * b < 2^31.
MulDiv(a, b, c) == (a \div c) * b + ((a % c) * b) \div c

\* ------------------------------------------------------------ Math.exp, Math.log

\* Resolution of the fixed-point exponential: Math.exp(-x) is ExpNeg(x) / ExpScale.
ExpScale == 1000

\* Math.log(2) in units of 1e-6.
LN2 == 693147

\* Half-lives beyond this many 0.001 h are reported as this value: 5 of them
\* still fit in 32 bits and it is past every horizon of the model.
MaxHalfLife == 400000000

\* Math.exp(-x) for x >= 0 in units of 1e-6: exact at the multiples of ln 2,
\* linear in between, 0 once the result underflows.
ExpNeg(x) ==
    LET q == x \div LN2
        r == x % LN2
    IN  IF q > 30 THEN 0
        ELSE (ExpScale - (ExpScale * r) \div (2 * LN2)) \div (2 ^ q)

\* rate * time in units of 1e-6, the rate taken to 1e-6 1/h.
Exponent(k, t) == (k \div 1000000) * t + (((k % 1000000) \div 1000) * t) \div 1000

\* Math.log(a / b) for a > b > 0 in units of 1e-6: the whole doublings of b
\* that fit in a, and the rest linearly (to 0.001 of a doubling).
LogRatio(a, b) ==
    LET q == CHOOSE k \in 0..30 : a \div (2 ^ k) >= b /\ (k = 30 \/ a \div (2 ^ (k + 1)) < b)
        aq == a \div (2 ^ q)
        frac == IF b >= 1000000 THEN (((aq - b) \div 1000) * 1000) \div (b \div 1000)
                ELSE ((aq - b) * 1000) \div b
    IN  LN2 * q + (LN2 * frac) \div 1000

\* x.toFixed(1) of a time in 0.001 h: the nearest 0.1 h, ties upwards.
ToFixed1(t) == ((t + 50) \div 100) * 100

\* x.toFixed(2) of a time in 0.001 h: the nearest 0.01 h, ties upwards.
ToFixed2(t) == ((t + 5) \div 10) * 10

\* ------------------------------------------------------------ defensive parsing

epsilon == 1

MinDoses == 1

MinInterval == 100

MinVolume == 1

MaxF == 100

nDoseOf(numberOfDosesVal) == MathMax(Num(MinDoses), OrElse(parseInt(numberOfDosesVal), Num(MinDoses)))

intvOf(dosingIntervalVal) == MathMax(Num(MinInterval), OrElse(parseFloat(dosingIntervalVal), Num(MinInterval)))

numericDoseOf(doseVal) == MathMax(Num(0), OrElse(parseFloat(doseVal), Num(0)))

numericVOf(volumeVal) == MathMax(Num(MinVolume), OrElse(parseFloat(volumeVal), Num(MinVolume)))

numericKeOfWithoutFloor(keVal) == OrElse(parseFloat(keVal), Num(epsilon))

numericKeOf(keVal) == MathMax(Num(epsilon), OrElse(parseFloat(keVal), Num(epsilon)))

numericKaOf(kaVal) == MathMax(Num(epsilon), OrElse(parseFloat(kaVal), Num(epsilon)))

numericFOf(bioVal) == MathMin(Num(MaxF), MathMax(Num(0), OrElse(parseFloat(bioVal), Num(0))))

\* The normalized parameters of one render, from the raw field values.
Normalize(f) ==
    [nDose |-> nDoseOf(f.numberOfDoses),
     intv |-> intvOf(f.dosingInterval),
     numericDose |-> numericDoseOf(f.dose),
     numericV |-> numericVOf(f.volume),
     numericKe |-> numericKeOf(f.ke),
     numericKa |-> numericKaOf(f.ka),
     numericF |-> numericFOf(f.bioavailability)]

\* ------------------------------------------------------------ concentration model

\* |ka - ke| below which the oral formula takes its limit: 1e-6 1/h.
LimitThreshold == 1000

\* IV bolus: C0 * Math.exp(-keVal * t).
calculateIVBolus(t, C0, keVal) == MulDiv(C0, ExpNeg(Exponent(keVal, t)), ExpScale)

\* The oral formula for finite ka: (F*D*ka)/(V*(ka-ke)) * (e^(-ke*t) - e^(-ka*t)),
\* or its limit (F*D*ka/V) * t * e^(-ka*t) when ka and ke are numerically
\* very close.
oralDoseFinite(t, D, V, kaVal, keVal, F) ==
    LET base == (F * D * 10000) \div V
    IN  IF Abs(kaVal - keVal) < LimitThreshold
        THEN LET kat == Exponent(kaVal, t)
                 z == MulDiv(kat, ExpNeg(kat), ExpScale)
             IN  MulDiv(base, z \div 1000, 1000)
        ELSE LET ratio == ((kaVal \div 1000) * 1000) \div (Abs(kaVal - keVal) \div 1000)
                 coeff == MulDiv(base, ratio, 1000)
                 diff == ExpNeg(Exponent(keVal, t)) - ExpNeg(Exponent(kaVal, t))
                 sign == IF (kaVal > keVal) = (diff >= 0) THEN 1 ELSE -1
             IN  sign * MulDiv(coeff, Abs(diff), ExpScale)

\* coeff = (F * D * kaVal) / (V * (kaVal - keVal)) for kaVal = 1e308: the
\* numerator is 0, finite or Infinity, the denominator finite or Infinity,
\* and Infinity / Infinity is NaN.
oralCoefficientHugeKa(D, V, F) ==
    LET numerator == IF F * D = 0 THEN "zero"
                     ELSE IF F * D > HugeFactorLimit THEN "inf" ELSE "huge"
        denominator == IF V > 100 * HugeFactorLimit THEN "inf" ELSE "huge"
    IN  IF numerator = "zero" THEN Num(0)
        ELSE IF numerator = "inf"
             THEN IF denominator = "inf" THEN NaN ELSE Infinity
        ELSE IF denominator = "inf" THEN Num(0)
        ELSE Num((F * D * 10000) \div V)

\* coeff * (e^(-ke*t) - e^(-ka*t)) for kaVal = 1e308: the difference is 0 at
\* t = 0 and e^(-ke*t) afterwards, and Infinity * 0 is NaN.
oralDoseHugeKa(t, D, V, keVal, F) ==
    LET coeff == oralCoefficientHugeKa(D, V, F)
    IN  IF IsNaN(coeff) THEN NaN
        ELSE IF coeff.kind = "inf" THEN (IF t = 0 THEN NaN ELSE Infinity)
        ELSE IF t = 0 THEN Num(0)
        ELSE Num(MulDiv(coeff.v, ExpNeg(Exponent(keVal, t)), ExpScale))

\* calculateOralDose, with kaVal a number that may be 1e308.
calculateOralDose(t, D, V, kaVal, keVal, F) ==
    IF kaVal.kind = "huge"
    THEN oralDoseHugeKa(t, D, V, keVal, F)
    ELSE Num(oralDoseFinite(t, D, V, kaVal.v, keVal, F))

\* Sum multiple doses by superposition: the loop over the dose index i.
\* singleDoseFunc is the single-dose response, a function of the time since
\* the dose.
RECURSIVE multipleDosesLoopAfterDoseTime(_, _, _, _, _, _)
multipleDosesLoopAfterDoseTime(i, total, t, singleDoseFunc, dosingIntervalVal, numberOfDosesVal) ==
    IF i < numberOfDosesVal
    THEN LET doseTime == i * dosingIntervalVal
         IN  multipleDosesLoopAfterDoseTime(i + 1,
                 IF t > doseTime THEN JsAdd(total, singleDoseFunc[t - doseTime]) ELSE total,
                 t, singleDoseFunc, dosingIntervalVal, numberOfDosesVal)
    ELSE total

RECURSIVE multipleDosesLoop(_, _, _, _, _, _)
multipleDosesLoop(i, total, t, singleDoseFunc, dosingIntervalVal, numberOfDosesVal) ==
    IF i < numberOfDosesVal
    THEN LET doseTime == i * dosingIntervalVal
         IN  multipleDosesLoop(i + 1,
                 IF t >= doseTime THEN JsAdd(total, singleDoseFunc[t - doseTime]) ELSE total,
                 t, singleDoseFunc, dosingIntervalVal, numberOfDosesVal)
    ELSE total

calculateMultipleDoses(t, singleDoseFunc, dosingIntervalVal, numberOfDosesVal) ==
    multipleDosesLoop(0, Num(0), t, singleDoseFunc, dosingIntervalVal, numberOfDosesVal)

\* ------------------------------------------------------------ simulatePK

\* dt = 0.25 h.
Dt == 250

\* The 24 h of Math.max(24, nDose * intv + 24).
BaseHorizon == 24000

\* The 1e-9 h added to the loop bound; it is below the 0.001 h of the time grid.
LoopSlack == 0

maxTimeOf(nDoseVal, intvVal) == Max2(BaseHorizon, nDoseVal * intvVal + BaseHorizon)

\* The arrow function simulatePK passes as singleDoseFunc, on the times
\* 0 .. t since a dose: (tau) => calculateIVBolus(tau, C0, numericKe) with
\* C0 = numericDose / numericV, or (tau) => calculateOralDose(tau, ...).
singleDoseFuncOf(t, administrationTypeVal, p) ==
    IF administrationTypeVal = "iv"
    THEN LET C0 == (p.numericDose.v * 1000000) \div p.numericV.v
         IN  [tau \in 0..t |-> Num(calculateIVBolus(tau, C0, p.numericKe.v))]
    ELSE [tau \in 0..t |-> calculateOralDose(tau, p.numericDose.v, p.numericV.v,
                               p.numericKa, p.numericKe.v, p.numericF.v)]

\* The concentration at time t for the raw fields f and their normalized values p.
concentrationAt(t, f, p) ==
    calculateMultipleDoses(t, singleDoseFuncOf(t, f.administrationType, p), p.intv.v, p.nDose.v)

statusOf(concentration, thMin, thMax) ==
    IF JsLt(concentration, thMin) THEN "subtherapeutic"
    ELSE IF JsGt(concentration, thMax) THEN "toxic"
    ELSE "therapeutic"

inRangeOf(concentration, thMin, thMax) == JsGe(concentration, thMin) /\ JsLe(concentration, thMax)

\* One element of timePoints.
samplePoint(t, f, p) ==
    LET concentration == concentrationAt(t, f, p)
    IN  [time |-> ToFixed2(t),
         concentration |-> concentration,
         therapeuticMin |-> f.therapeuticMin,
         therapeuticMax |-> f.therapeuticMax,
         inRange |-> inRangeOf(concentration, f.therapeuticMin, f.therapeuticMax),
         status |-> statusOf(concentration, f.therapeuticMin, f.therapeuticMax)]

\* The loop test of for (let t = 0; t <= maxTime + 1e-9; t += dt).
loopRunsBelow(t, maxTime) == t < maxTime + LoopSlack

loopRuns(t, maxTime) == t <= maxTime + LoopSlack

\* The loop step t += dt.
loopNext(t) == t + Dt

\* The array simulatePK hands to setData, for the raw fields f: the loop run
\* to its end in one step. Its i-th pass has t = (i - 1) * dt, and it makes
\* floor((maxTime + slack) / dt) + 1 passes; SimLoopAgrees checks this closed
\* form against the loop taken pass by pass.
simulatePKData(f) ==
    LET p == Normalize(f)
        maxTime == maxTimeOf(p.nDose.v, p.intv.v)
        passes == (maxTime + LoopSlack) \div Dt + 1
    IN  [i \in 1..passes |-> samplePoint((i - 1) * Dt, f, p)]

\* ------------------------------------------------------------ calculateMetrics

\* A value that may be null.
Null == [null |-> TRUE, v |-> 0]

Val(x) == [null |-> FALSE, v |-> x]

\* Tmax only valid for oral when ka > ke: the margin 1e-12 1/h of the test is
\* below the 1e-9 1/h of the rate grid.
TmaxMargin == 0

\* Math.log(2) / numericKe in 0.001 h.
halfLifeOf(numericKeVal) ==
    IF numericKeVal >= 1000
    THEN Min2(MaxHalfLife, (LN2 * 1000) \div (numericKeVal \div 1000))
    ELSE MaxHalfLife

\* Math.log(numericKa / numericKe) / (numericKa - numericKe) in 0.001 h. A
\* difference ka - ke below 1e-6 1/h counts as 1e-6 1/h in the division; for
\* ka = 1e308 the quotient is of the order of 1e-305 h.
TmaxValue(numericKaVal, numericKeVal) ==
    IF numericKaVal.kind = "huge" THEN 0
    ELSE MulDiv(LogRatio(numericKaVal.v, numericKeVal), 1000,
                Max2(1, (numericKaVal.v - numericKeVal) \div 1000))

\* Tmax, in 0.001 h, or null.
TmaxOfAnyRoute(administrationTypeVal, numericKaVal, numericKeVal) ==
    IF JsGt(numericKaVal, Num(numericKeVal + TmaxMargin))
    THEN Val(TmaxValue(numericKaVal, numericKeVal))
    ELSE Null

TmaxOf(administrationTypeVal, numericKaVal, numericKeVal) ==
    IF administrationTypeVal = "oral" /\ JsGt(numericKaVal, Num(numericKeVal + TmaxMargin))
    THEN Val(TmaxValue(numericKaVal, numericKeVal))
    ELSE Null

\* Cmax = calculateOralDose(Tmax, ...), in 0.01 mg/L. For ka = 1e308 the
\* difference of exponentials at Tmax is 1 to machine precision, so Cmax is
\* the coefficient.
CmaxOf(Tmax, D, V, numericKaVal, numericKeVal, F) ==
    IF numericKaVal.kind = "huge"
    THEN oralCoefficientHugeKa(D, V, F)
    ELSE calculateOralDose(Tmax, D, V, numericKaVal, numericKeVal, F)

\* Some element of d[lo..hi] has a concentration of the given kind.
HasKind(d, lo, hi, kind) == \E i \in lo..hi : d[i].concentration.kind = kind

\* x.toFixed(3) of a number x given as num / den units of 0.01: the nearest
\* 0.001, or "NaN" or "Infinity".
ToFixed3(kind, num, den) ==
    IF kind = "nan" THEN NaN
    ELSE IF kind = "inf" THEN Infinity
    ELSE Num((20 * num + den) \div (2 * den))

\* AUC by trapezoid, in units of 0.01 mg/L * 0.001 h / 2: the terms of the
\* loop for i = lo .. hi over finite concentrations, summed by halves.
RECURSIVE aucTerms(_, _, _)
aucTerms(lo, hi, d) ==
    IF lo > hi THEN 0
    ELSE IF lo = hi
    THEN (d[lo].concentration.v + d[lo - 1].concentration.v) * (d[lo].time - d[lo - 1].time)
    ELSE LET mid == (lo + hi) \div 2
         IN  aucTerms(lo, mid, d) + aucTerms(mid + 1, hi, d)

\* for (let i = 1; i < data.length; i++), on a 1-based sequence, toFixed(3):
\* in 0.001 mg h/L. A NaN term makes the sum NaN, an infinite one Infinity.
aucOf(d) ==
    IF Len(d) < 2 THEN Num(0)
    ELSE IF HasKind(d, 1, Len(d), "nan") THEN NaN
    ELSE IF HasKind(d, 1, Len(d), "inf") THEN Infinity
    ELSE Num((aucTerms(2, Len(d), d) + 100) \div 200)

\* data.filter((d) => d.inRange).length
therapeuticPointsOf(d) == Cardinality({i \in 1..Len(d) : d[i].inRange})

\* (therapeuticPoints / data.length) * 100, toFixed(1): in units of 0.1 %.
percentInRangeOf(d) == (2000 * therapeuticPointsOf(d) + Len(d)) \div (2 * Len(d))

\* steadyData.reduce((s, x) => s + x.concentration, 0), over the samples
\* lo .. hi at or after startTime with finite concentrations, summed by
\* halves.
RECURSIVE sumFrom(_, _, _, _)
sumFrom(lo, hi, d, startTime) ==
    IF lo > hi THEN 0
    ELSE IF lo = hi
    THEN IF d[lo].time >= startTime THEN d[lo].concentration.v ELSE 0
    ELSE LET mid == (lo + hi) \div 2
         IN  sumFrom(lo, mid, d, startTime) + sumFrom(mid + 1, hi, d, startTime)

\* nDose > 1 && sufficientTimeForSteadyState, where the latter is
\* data.length && (data[data.length - 1].time >= 5 * halfLife).
steadyStateReachedDropsDoseCount(d, nDoseVal, halfLife) ==
    Len(d) # 0 /\ d[Len(d)].time >= 5 * halfLife

steadyStateReached(d, nDoseVal, halfLife) ==
    nDoseVal > 1 /\ Len(d) # 0 /\ d[Len(d)].time >= 5 * halfLife

\* The steady-state fields, each null or a number in 0.001 mg/L (toFixed(3)).
\* Math.max and Math.min give NaN as soon as one argument is NaN.
steadyStateOf(d, nDoseVal, intvVal, halfLife) ==
    LET windowHours == Min2(5 * halfLife, intvVal * 4)
        startTime == d[Len(d)].time - windowHours
        steadyData == {i \in 1..Len(d) : d[i].time >= startTime}
        n == Cardinality(steadyData)
        kinds == {d[i].concentration.kind : i \in steadyData}
        concs == {d[i].concentration.v : i \in {j \in steadyData : d[j].concentration.kind = "fin"}}
        sumKind == IF "nan" \in kinds THEN "nan" ELSE IF "inf" \in kinds THEN "inf" ELSE "fin"
        minKind == IF "nan" \in kinds THEN "nan" ELSE IF kinds = {"inf"} THEN "inf" ELSE "fin"
    IN  IF steadyStateReached(d, nDoseVal, halfLife) /\ n > 0
        THEN [Css_avg |-> Val(ToFixed3(sumKind, sumFrom(1, Len(d), d, startTime), n)),
              Css_max |-> Val(ToFixed3(sumKind, CHOOSE c \in concs \cup {0} : \A c2 \in concs : c2 <= c, 1)),
              Css_min |-> Val(ToFixed3(minKind, CHOOSE c \in concs \cup {0} : \A c2 \in concs : c2 >= c, 1))]
        ELSE [Css_avg |-> Null, Css_max |-> Null, Css_min |-> Null]

\* What a tile shows: a figure, or the dash of "not applicable".
Dash == [dash |-> TRUE, v |-> 0]

Shown(x) == [dash |-> FALSE, v |-> x]

\* The record of the useMemo, for the data d on display and the raw fields f
\* of this render; null while there is no data.
calculateMetrics(d, f) ==
    IF Len(d) = 0 THEN Null
    ELSE LET p == Normalize(f)
             halfLife == halfLifeOf(p.numericKe.v)
             Tmax == TmaxOf(f.administrationType, p.numericKa, p.numericKe.v)
             Cmax == IF Tmax.null THEN Null
                     ELSE Val(CmaxOf(Tmax.v, p.numericDose.v, p.numericV.v,
                                  p.numericKa, p.numericKe.v, p.numericF.v))
             ss == steadyStateOf(d, p.nDose.v, p.intv.v, halfLife)
         IN  Val([halfLife |-> halfLife,
                  Tmax |-> IF Tmax.null THEN Dash ELSE Shown(Tmax.v),
                  Cmax |-> IF Cmax.null THEN Dash ELSE Shown(ToFixed3(Cmax.v.kind, Cmax.v.v, 1)),
                  AUC |-> aucOf(d),
                  percentInRange |-> percentInRangeOf(d),
                  Css_avg |-> ss.Css_avg,
                  Css_max |-> ss.Css_max,
                  Css_min |-> ss.Css_min])

\* ------------------------------------------------------------ state

\* The improved component: its useState cells, the number of html2canvas
\* calls of exportChartAsPNG that have not settled, the last alert shown, and
\* the number of field edits made so far.
VARIABLES administrationType, dose, volume, ke, ka, bioavailability,
          dosingInterval, numberOfDoses, therapeuticMin, therapeuticMax,
          data, exporting, exportCall, alertShown, edits

\* One call of a function of the improved component taken on its own: the
\* function, its arguments, its result so far, the loop variable t of
\* simulatePK, and where the call stands ("call", "loop", "return").
VARIABLES fn, args, result, loopT, callPc

\* The first component: its useState cells and the position of its render in
\* the two nested concentration loops.
VARIABLES basicDose, basicInterval, basicHalfLife, basicDuration,
          basicT, basicN, basicConc, basicData, basicPc

uiVars == <<administrationType, dose, volume, ke, ka, bioavailability,
            dosingInterval, numberOfDoses, therapeuticMin, therapeuticMax,
            data, exporting, exportCall, alertShown, edits>>

callVars == <<fn, args, result, loopT, callPc>>

basicVars == <<basicDose, basicInterval, basicHalfLife, basicDuration,
               basicT, basicN, basicConc, basicData, basicPc>>

vars == <<uiVars, callVars, basicVars>>

\* The raw field values of the current render.
Fields ==
    [administrationType |-> administrationType,
     dose |-> dose, volume |-> volume, ke |-> ke, ka |-> ka,
     bioavailability |-> bioavailability,
     dosingInterval |-> dosingInterval, numberOfDoses |-> numberOfDoses,
     therapeuticMin |-> therapeuticMin, therapeuticMax |-> therapeuticMax]

\* The initial useState values.
DefaultFields ==
    [administrationType |-> "iv",
     dose |-> Num(500), volume |-> Num(500000),
     ke |-> Num(100000000), ka |-> Num(500000000),
     bioavailability |-> Num(80),
     dosingInterval |-> Num(8000), numberOfDoses |-> Num(1000),
     therapeuticMin |-> Num(500), therapeuticMax |-> Num(1500)]

UiInit ==
    /\ administrationType = DefaultFields.administrationType
    /\ dose = DefaultFields.dose
    /\ volume = DefaultFields.volume
    /\ ke = DefaultFields.ke
    /\ ka = DefaultFields.ka
    /\ bioavailability = DefaultFields.bioavailability
    /\ dosingInterval = DefaultFields.dosingInterval
    /\ numberOfDoses = DefaultFields.numberOfDoses
    /\ therapeuticMin = DefaultFields.therapeuticMin
    /\ therapeuticMax = DefaultFields.therapeuticMax
    /\ data = <<>>
    /\ exporting = FALSE
    /\ exportCall = 0
    /\ alertShown = "none"
    /\ edits = 0

CallIdle ==
    /\ fn = "none"
    /\ args = <<>>
    /\ result = <<>>
    /\ loopT = 0
    /\ callPc = "idle"

\* The first component's useState values, in mg and whole hours.
BasicDefaults ==
    /\ basicDose = Num(500)
    /\ basicInterval = Num(8)
    /\ basicHalfLife = Num(6)
    /\ basicDuration = Num(48)

BasicIdle ==
    /\ BasicDefaults
    /\ basicT = 0
    /\ basicN = 0
    /\ basicConc = Num(0)
    /\ basicData = <<>>
    /\ basicPc = "idle"

\* ------------------------------------------------------------ the improved component

\* Field edits explored in one session.
MaxEdits == 2

\* What is typed into each field.
DoseTexts == {Numeral(500), EmptyText}

VolumeTexts == {Numeral(500000), Numeral(250000)}

KeTexts == {Numeral(100000000), Numeral(144000000), BadText}

KaTexts == {Numeral(500000000), Numeral(100000000), Numeral(50000000), HugeText}

BioavailabilityTexts == {Numeral(80), Numeral(150)}

DosingIntervalTexts == {Numeral(8000), Numeral(5350), EmptyText}

NumberOfDosesTexts == {Numeral(1000), Numeral(2000), EmptyText}

TherapeuticMinTexts == {Numeral(500), Numeral(2000), Numeral(-500), EmptyText}

TherapeuticMaxTexts == {Numeral(1500), EmptyText}

Edit == edits < MaxEdits /\ edits' = edits + 1

setAdministrationType(v) ==
    /\ Edit
    /\ administrationType' = v
    /\ UNCHANGED <<dose, volume, ke, ka, bioavailability, dosingInterval, numberOfDoses,
                   therapeuticMin, therapeuticMax, data, exporting, exportCall, alertShown>>
    /\ UNCHANGED <<callVars, basicVars>>

setDose(text) ==
    /\ Edit
    /\ dose' = NumberOf(text)
    /\ UNCHANGED <<administrationType, volume, ke, ka, bioavailability, dosingInterval,
                   numberOfDoses, therapeuticMin, therapeuticMax, data, exporting,
                   exportCall, alertShown>>
    /\ UNCHANGED <<callVars, basicVars>>

setVolume(text) ==
    /\ Edit
    /\ volume' = NumberOf(text)
    /\ UNCHANGED <<administrationType, dose, ke, ka, bioavailability, dosingInterval,
                   numberOfDoses, therapeuticMin, therapeuticMax, data, exporting,
                   exportCall, alertShown>>
    /\ UNCHANGED <<callVars, basicVars>>

setKe(text) ==
    /\ Edit
    /\ ke' = NumberOf(text)
    /\ UNCHANGED <<administrationType, dose, volume, ka, bioavailability, dosingInterval,
                   numberOfDoses, therapeuticMin, therapeuticMax, data, exporting,
                   exportCall, alertShown>>
    /\ UNCHANGED <<callVars, basicVars>>

\* The ka and bioavailability inputs are rendered for the oral route only.
setKa(text) ==
    /\ administrationType = "oral"
    /\ Edit
    /\ ka' = NumberOf(text)
    /\ UNCHANGED <<administrationType, dose, volume, ke, bioavailability, dosingInterval,
                   numberOfDoses, therapeuticMin, therapeuticMax, data, exporting,
                   exportCall, alertShown>>
    /\ UNCHANGED <<callVars, basicVars>>

setBioavailability(text) ==
    /\ administrationType = "oral"
    /\ Edit
    /\ bioavailability' = NumberOf(text)
    /\ UNCHANGED <<administrationType, dose, volume, ke, ka, dosingInterval,
                   numberOfDoses, therapeuticMin, therapeuticMax, data, exporting,
                   exportCall, alertShown>>
    /\ UNCHANGED <<callVars, basicVars>>

setDosingInterval(text) ==
    /\ Edit
    /\ dosingInterval' = NumberOf(text)
    /\ UNCHANGED <<administrationType, dose, volume, ke, ka, bioavailability,
                   numberOfDoses, therapeuticMin, therapeuticMax, data, exporting,
                   exportCall, alertShown>>
    /\ UNCHANGED <<callVars, basicVars>>

setNumberOfDoses(text) ==
    /\ Edit
    /\ numberOfDoses' = NumberOf(text)
    /\ UNCHANGED <<administrationType, dose, volume, ke, ka, bioavailability,
                   dosingInterval, therapeuticMin, therapeuticMax, data, exporting,
                   exportCall, alertShown>>
    /\ UNCHANGED <<callVars, basicVars>>

setTherapeuticMin(text) ==
    /\ Edit
    /\ therapeuticMin' = NumberOf(text)
    /\ UNCHANGED <<administrationType, dose, volume, ke, ka, bioavailability,
                   dosingInterval, numberOfDoses, therapeuticMax, data, exporting,
                   exportCall, alertShown>>
    /\ UNCHANGED <<callVars, basicVars>>

setTherapeuticMax(text) ==
    /\ Edit
    /\ therapeuticMax' = NumberOf(text)
    /\ UNCHANGED <<administrationType, dose, volume, ke, ka, bioavailability,
                   dosingInterval, numberOfDoses, therapeuticMin, data, exporting,
                   exportCall, alertShown>>
    /\ UNCHANGED <<callVars, basicVars>>

\* The Run button carries no disabled attribute.
RunEnabled == TRUE

\* disabled={data.length === 0}, without the exporting flag.
DownloadEnabledWhileExporting == ~(Len(data) = 0)

\* disabled={exporting || data.length === 0}
DownloadEnabled == ~(exporting \/ Len(data) = 0)

\* chartRef.current: the chart area is mounted while there is data.
chartRef == IF Len(data) > 0 THEN "pk-chart" ELSE "null"

\* Click on "Run Advanced Simulation".
simulatePK ==
    /\ RunEnabled
    /\ data' = simulatePKData(Fields)
    /\ UNCHANGED <<administrationType, dose, volume, ke, ka, bioavailability,
                   dosingInterval, numberOfDoses, therapeuticMin, therapeuticMax,
                   exporting, exportCall, alertShown, edits>>
    /\ UNCHANGED <<callVars, basicVars>>

\* Click on "Download PNG": up to the await of html2canvas.
exportChartAsPNG ==
    /\ DownloadEnabled
    /\ IF chartRef = "null"
       THEN /\ alertShown' = "Chart not found"
            /\ UNCHANGED <<exporting, exportCall>>
       ELSE /\ exporting' = TRUE
            /\ exportCall' = exportCall + 1
            /\ UNCHANGED alertShown
    /\ UNCHANGED <<administrationType, dose, volume, ke, ka, bioavailability,
                   dosingInterval, numberOfDoses, therapeuticMin, therapeuticMax,
                   data, edits>>
    /\ UNCHANGED <<callVars, basicVars>>

\* html2canvas resolves and the canvas is encoded: the link is clicked, then
\* the finally block runs.
exportResolved ==
    /\ exportCall > 0
    /\ exportCall' = exportCall - 1
    /\ exporting' = FALSE
    /\ UNCHANGED <<administrationType, dose, volume, ke, ka, bioavailability,
                   dosingInterval, numberOfDoses, therapeuticMin, therapeuticMax,
                   data, alertShown, edits>>
    /\ UNCHANGED <<callVars, basicVars>>

\* html2canvas rejects, or toDataURL throws: the catch block alerts, then the
\* finally block runs.
exportFailedWithoutFinally ==
    /\ exportCall > 0
    /\ exportCall' = exportCall - 1
    /\ alertShown' = "Export failed"
    /\ UNCHANGED <<administrationType, dose, volume, ke, ka, bioavailability,
                   dosingInterval, numberOfDoses, therapeuticMin, therapeuticMax,
                   data, exporting, edits>>
    /\ UNCHANGED <<callVars, basicVars>>

exportFailed ==
    /\ exportCall > 0
    /\ exportCall' = exportCall - 1
    /\ alertShown' = "Export failed"
    /\ exporting' = FALSE
    /\ UNCHANGED <<administrationType, dose, volume, ke, ka, bioavailability,
                   dosingInterval, numberOfDoses, therapeuticMin, therapeuticMax,
                   data, edits>>
    /\ UNCHANGED <<callVars, basicVars>>

Init == UiInit /\ CallIdle /\ BasicIdle

Next ==
    \/ \E v \in {"iv", "oral"} : setAdministrationType(v)
    \/ \E text \in DoseTexts : setDose(text)
    \/ \E text \in VolumeTexts : setVolume(text)
    \/ \E text \in KeTexts : setKe(text)
    \/ \E text \in KaTexts : setKa(text)
    \/ \E text \in BioavailabilityTexts : setBioavailability(text)
    \/ \E text \in DosingIntervalTexts : setDosingInterval(text)
    \/ \E text \in NumberOfDosesTexts : setNumberOfDoses(text)
    \/ \E text \in TherapeuticMinTexts : setTherapeuticMin(text)
    \/ \E text \in TherapeuticMaxTexts : setTherapeuticMax(text)
    \/ simulatePK
    \/ exportChartAsPNG
    \/ exportResolved
    \/ exportFailed

Spec == Init /\ [][Next]_vars

\* The Metrics record on display.
metrics == calculateMetrics(data, Fields)

\* ------------------------------------------------------------ the defensive parsing, called on its own

\* Raw field values handed to the defensive parsing: no text, a text that is
\* no number, 1e308, a negative numeral, a small and a larger positive one.
RawTexts == {EmptyText, BadText, HugeText, Numeral(-2500), Numeral(50), Numeral(2500)}

\* Number(e.target.value) for each field.
RawFieldsOf(texts) ==
    [administrationType |-> "iv",
     dose |-> NumberOf(texts.dose), volume |-> NumberOf(texts.volume),
     ke |-> NumberOf(texts.ke), ka |-> NumberOf(texts.ka),
     bioavailability |-> NumberOf(texts.bioavailability),
     dosingInterval |-> NumberOf(texts.dosingInterval),
     numberOfDoses |-> NumberOf(texts.numberOfDoses),
     therapeuticMin |-> DefaultFields.therapeuticMin,
     therapeuticMax |-> DefaultFields.therapeuticMax]

NormInit ==
    /\ UiInit
    /\ BasicIdle
    /\ fn = "Normalize"
    /\ args \in [dose : RawTexts, volume : RawTexts, ke : RawTexts, ka : RawTexts,
                 bioavailability : RawTexts, dosingInterval : RawTexts,
                 numberOfDoses : RawTexts]
    /\ result = <<>>
    /\ loopT = 0
    /\ callPc = "call"

\* The seven const declarations of the render, for the raw values of args.
normalizeFields ==
    /\ fn = "Normalize"
    /\ callPc = "call"
    /\ result' = <<Normalize(RawFieldsOf(args))>>
    /\ callPc' = "return"
    /\ UNCHANGED <<fn, args, loopT, uiVars, basicVars>>

NormNext == normalizeFields

NormSpec == NormInit /\ [][NormNext]_vars

\* ------------------------------------------------------------ calculateMultipleDoses, called on its own

\* Query times are the multiples of 0.05 h up to this many.
MaxQuerySteps == 40

QueryStep == 50

\* Dose counts handed to calculateMultipleDoses.
MaxDoseCount == 4

\* Dosing intervals handed to calculateMultipleDoses, in 0.001 h.
QueryIntervals == {100, 250, 700}

DoseInit ==
    /\ UiInit
    /\ BasicIdle
    /\ fn = "calculateMultipleDoses"
    /\ args \in [t : {k * QueryStep : k \in 0..MaxQuerySteps},
                 administrationType : {"iv", "oral"},
                 dosingIntervalVal : QueryIntervals,
                 numberOfDosesVal : 1..MaxDoseCount]
    /\ result = <<>>
    /\ loopT = 0
    /\ callPc = "call"

\* The single-dose response of a call, with the default parameters.
singleDoseFuncOfCall(t) == singleDoseFuncOf(t, args.administrationType, Normalize(DefaultFields))

\* A single-dose response that is 1 at every time: the sum over it is the
\* number of doses that contribute.
unitDose(t) == [tau \in 0..t |-> Num(1)]

\* One call: the sum for the single-dose response of the route, and the sum
\* for the unit response.
superposeDoses ==
    /\ fn = "calculateMultipleDoses"
    /\ callPc = "call"
    /\ result' = <<[total |-> calculateMultipleDoses(args.t, singleDoseFuncOfCall(args.t),
                                  args.dosingIntervalVal, args.numberOfDosesVal),
                    contributing |-> calculateMultipleDoses(args.t, unitDose(args.t),
                                  args.dosingIntervalVal, args.numberOfDosesVal)]>>
    /\ callPc' = "return"
    /\ UNCHANGED <<fn, args, loopT, uiVars, basicVars>>

DoseNext == superposeDoses

DoseSpec == DoseInit /\ [][DoseNext]_vars

\* ------------------------------------------------------------ simulatePK, pass by pass

LoopInit ==
    /\ UiInit
    /\ BasicIdle
    /\ fn = "simulatePK"
    /\ \E route \in {"iv", "oral"}, intervalText \in DosingIntervalTexts \cup {Numeral(125)},
          dosesText \in NumberOfDosesTexts \cup {Numeral(3500)} :
           args = [DefaultFields EXCEPT !.administrationType = route,
                                        !.dosingInterval = NumberOf(intervalText),
                                        !.numberOfDoses = NumberOf(dosesText)]
    /\ result = <<>>
    /\ loopT = 0
    /\ callPc = "loop"

\* maxTime of the call.
maxTimeOfCall == maxTimeOf(Normalize(args).nDose.v, Normalize(args).intv.v)

\* One pass of the for loop: push the sample of time t, then t += dt.
simulatePKPass ==
    /\ fn = "simulatePK"
    /\ callPc = "loop"
    /\ loopRuns(loopT, maxTimeOfCall)
    /\ result' = Append(result, samplePoint(loopT, args, Normalize(args)))
    /\ loopT' = loopNext(loopT)
    /\ UNCHANGED <<fn, args, callPc, uiVars, basicVars>>

\* The loop test fails: setData(timePoints).
simulatePKExit ==
    /\ fn = "simulatePK"
    /\ callPc = "loop"
    /\ ~loopRuns(loopT, maxTimeOfCall)
    /\ callPc' = "return"
    /\ UNCHANGED <<fn, args, result, loopT, uiVars, basicVars>>

LoopNext == simulatePKPass \/ simulatePKExit

LoopSpec == LoopInit /\ [][LoopNext]_vars

\* The array simulatePK builds pass by pass is the one simulatePKData gives
\* in one step.
SimLoopAgrees == (fn = "simulatePK" /\ callPc = "return") => result = simulatePKData(args)

\* ------------------------------------------------------------ the AUC loop in floating point

\* Binary digits a number keeps: 53 for a JavaScript number; the model's
\* floating point keeps this many.
MantissaBits == 4

\* The number of binary digits of a natural number x.
BitLength(x) == CHOOSE k \in 0..31 : x < 2 ^ k /\ (k = 0 \/ x >= 2 ^ (k - 1))

\* The result of a floating-point operation whose exact value is the natural
\* number x: the nearest number with MantissaBits digits, ties to the even one.
RoundToPrecision(x) ==
    LET grid == 2 ^ Max2(0, BitLength(x) - MantissaBits)
        below == (x \div grid) * grid
        rest == x - below
    IN  IF 2 * rest < grid THEN below
        ELSE IF 2 * rest > grid THEN below + grid
        ELSE IF (below \div grid) % 2 = 0 THEN below ELSE below + grid

\* (data[i].concentration + data[i - 1].concentration) / 2 * dt, with
\* dt = data[i].time - data[i - 1].time in quarter hours, the result in units
\* of one concentration unit times 0.125 h: the division by 2 and the change
\* of unit are exact in binary floating point, the sum and the product round.
aucTerm(d, i) ==
    RoundToPrecision(RoundToPrecision(d[i].concentration + d[i - 1].concentration)
                     * (d[i].time - d[i - 1].time))

\* AUC = term, in place of AUC += term.
aucAssign(AUC, term) == term

\* AUC += term
aucAccumulate(AUC, term) == RoundToPrecision(AUC + term)

\* Samples in a sequence handed to the loop.
MaxSamples == 4

\* Concentrations of the samples, all representable, none negative.
AucConcentrations == {0, 1, 3, 64}

\* Quarter hours between one sample and the next.
AucGaps == {1, 3}

\* The sample sequence of a call: non-negative concentrations, strictly
\* increasing times.
aucData ==
    [i \in 1..Len(args.concentration) |->
        [time |-> args.start[i], concentration |-> args.concentration[i]]]

RECURSIVE TimesFrom(_, _)
TimesFrom(t, gaps) ==
    IF gaps = <<>> THEN <<t>> ELSE <<t>> \o TimesFrom(t + Head(gaps), Tail(gaps))

AucInit ==
    /\ UiInit
    /\ BasicIdle
    /\ fn = "AUC"
    /\ \E n \in 1..MaxSamples :
           \E concs \in [1..n -> AucConcentrations], gaps \in [1..(n - 1) -> AucGaps] :
               args = [concentration |-> concs, start |-> TimesFrom(0, gaps)]
    /\ result = <<[AUC |-> 0, before |-> 0]>>
    /\ loopT = 2
    /\ callPc = "loop"

\* One pass of for (let i = 1; i < data.length; i++), on a 1-based sequence:
\* after it, AUC is that of the first loopT samples and before is that of
\* the same samples without the last.
aucPass ==
    /\ fn = "AUC"
    /\ callPc = "loop"
    /\ loopT <= Len(aucData)
    /\ result' = <<[AUC |-> aucAccumulate(result[1].AUC, aucTerm(aucData, loopT)),
                    before |-> result[1].AUC]>>
    /\ loopT' = loopT + 1
    /\ UNCHANGED <<fn, args, callPc, uiVars, basicVars>>

\* The loop test fails.
aucExit ==
    /\ fn = "AUC"
    /\ callPc = "loop"
    /\ loopT > Len(aucData)
    /\ callPc' = "return"
    /\ UNCHANGED <<fn, args, result, loopT, uiVars, basicVars>>

AucNext == aucPass \/ aucExit

AucSpec == AucInit /\ [][AucNext]_vars

\* ------------------------------------------------------------ claims on the improved component

\* The normalized parameters of the current render.
Current == Normalize(Fields)

\* The samples on display are those of the current parameters.
Fresh == data = simulatePKData(Fields)

\* C1: whenever samples are on display, they are the ones computed from the
\* current parameters, so that no metric is derived from parameters other
\* than those that produced the displayed samples.
C1_DisplayFromCurrentParameters == Len(data) > 0 => Fresh

SteadyStatePresent == ~metrics.v.Css_avg.null /\ ~metrics.v.Css_max.null /\ ~metrics.v.Css_min.null

SteadyStateAbsent == metrics.v.Css_avg.null /\ metrics.v.Css_max.null /\ metrics.v.Css_min.null

\* C7 as stated, on the displays whose samples are those of the current
\* parameters: the steady-state fields are present exactly when the dose
\* count is greater than 1 and the horizon max(24, doseCount * interval + 24)
\* is at least 5 half-lives, and all three are null otherwise.
C7_PresentIffHorizonCoversFiveHalfLives ==
    (Len(data) > 0 /\ Fresh) =>
        LET due == Current.nDose.v > 1
                   /\ maxTimeOf(Current.nDose.v, Current.intv.v) >= 5 * halfLifeOf(Current.numericKe.v)
        IN  IF due THEN SteadyStatePresent ELSE SteadyStateAbsent

\* C7, amended: the steady-state fields are present exactly when the current
\* dose count is greater than 1 and the time of the last sample on display
\* is at least 5 current half-lives, and all three are null otherwise.
C7_PresentIffLastSampleCoversFiveHalfLives ==
    Len(data) > 0 =>
        LET due == Current.nDose.v > 1
                   /\ data[Len(data)].time >= 5 * halfLifeOf(Current.numericKe.v)
        IN  IF due THEN SteadyStatePresent ELSE SteadyStateAbsent

\* The horizon covers 5 half-lives, the last sample does not, and the fields
\* are null on a display that is up to date.
C7_Witness ==
    /\ Len(data) > 0
    /\ Fresh
    /\ Current.nDose.v > 1
    /\ maxTimeOf(Current.nDose.v, Current.intv.v) >= 5 * halfLifeOf(Current.numericKe.v)
    /\ data[Len(data)].time < 5 * halfLifeOf(Current.numericKe.v)
    /\ SteadyStateAbsent

\* C8: peak time and peak concentration show the dash whenever the route is
\* intravenous, and whenever it is oral with ka <= ke; they show a figure
\* only for the oral route with ka > ke.
C8_PeakOnlyForOralWithKaAboveKe ==
    Len(data) > 0 =>
        /\ (administrationType = "iv" \/ JsLe(Current.numericKa, Current.numericKe))
               => (metrics.v.Tmax = Dash /\ metrics.v.Cmax = Dash)
        /\ (metrics.v.Tmax # Dash \/ metrics.v.Cmax # Dash)
               => (administrationType = "oral" /\ JsGt(Current.numericKa, Current.numericKe))

\* An oral display with ka below ke, showing the dash for the peak time.
C8_Witness ==
    /\ Len(data) > 0
    /\ administrationType = "oral"
    /\ JsLt(Current.numericKa, Current.numericKe)
    /\ metrics.v.Tmax = Dash

\* C9: every sample carries one of the three status tags, its inRange flag
\* is true exactly when its tag is "therapeutic", and percent in range is
\* 100 * (samples tagged "therapeutic") / (samples), to one decimal.
C9_InRangeIffTherapeutic ==
    Len(data) > 0 =>
        /\ \A i \in 1..Len(data) :
               /\ data[i].status \in {"subtherapeutic", "therapeutic", "toxic"}
               /\ data[i].inRange <=> (data[i].status = "therapeutic")
        /\ LET tagged == Cardinality({i \in 1..Len(data) : data[i].status = "therapeutic"})
           IN  metrics.v.percentInRange = (2000 * tagged + Len(data)) \div (2 * Len(data))

simulationVars == <<administrationType, dose, volume, ke, ka, bioavailability,
                    dosingInterval, numberOfDoses, therapeuticMin, therapeuticMax, data>>

\* C10: no step of an export (its start, its success, its failure) changes
\* the parameters or the samples; Run can be clicked in every state; and
\* when the export call settles, exporting is false again and Download can
\* be clicked.
C10_ExportLeavesSimulationAlone ==
    /\ []RunEnabled
    /\ [][(exportChartAsPNG \/ exportResolved \/ exportFailed) =>
              /\ UNCHANGED simulationVars
              /\ (exportCall > 0 /\ exportCall' = 0)
                     => (~exporting' /\ DownloadEnabled')]_vars

\* A failed export has settled, in a session with a field edit and data.
C10_Witness ==
    /\ alertShown = "Export failed"
    /\ exportCall = 0
    /\ ~exporting
    /\ Len(data) > 0
    /\ edits > 0

\* C11: every numeric field is clamped before the computation uses it, the
\* band bounds included: the therapeuticMin and therapeuticMax that status
\* tagging compares a concentration with, and that every sample records, are
\* numbers that are not negative.
C11_BandBoundsClampedBeforeTagging ==
    \A i \in 1..Len(data) :
        /\ JsGe(data[i].therapeuticMin, Num(0))
        /\ JsGe(data[i].therapeuticMax, Num(0))

\* ------------------------------------------------------------ the first component

\* n++ leaves n unchanged once n is 2^53; the model's counter stops here.
CounterLimit == 16

\* conc += x leaves conc unchanged once x is below half a unit in the last
\* place of conc; the model's sum stops here, in mg.
ConcLimit == 10000

BasicDoseTexts == {Numeral(500), EmptyText}

BasicIntervalTexts == {Numeral(8), Numeral(0), Numeral(-8)}

BasicHalfLifeTexts == {Numeral(6), Numeral(0)}

BasicDurationTexts == {Numeral(48), Numeral(2), Numeral(-1)}

\* The component function starts again from its first statement.
basicRender ==
    /\ basicT' = 0
    /\ basicN' = 0
    /\ basicConc' = Num(0)
    /\ basicData' = <<>>
    /\ basicPc' = "outerTest"

basicSetDose(text) ==
    /\ basicPc = "idle"
    /\ basicDose' = NumberOf(text)
    /\ basicRender
    /\ UNCHANGED <<basicInterval, basicHalfLife, basicDuration, uiVars, callVars>>

basicSetInterval(text) ==
    /\ basicPc = "idle"
    /\ basicInterval' = NumberOf(text)
    /\ basicRender
    /\ UNCHANGED <<basicDose, basicHalfLife, basicDuration, uiVars, callVars>>

basicSetHalfLife(text) ==
    /\ basicPc = "idle"
    /\ basicHalfLife' = NumberOf(text)
    /\ basicRender
    /\ UNCHANGED <<basicDose, basicInterval, basicDuration, uiVars, callVars>>

basicSetDuration(text) ==
    /\ basicPc = "idle"
    /\ basicDuration' = NumberOf(text)
    /\ basicRender
    /\ UNCHANGED <<basicDose, basicInterval, basicHalfLife, uiVars, callVars>>

\* n <= t / interval for whole t >= 0 and n >= 0: t / 0 is Infinity for
\* t > 0 and NaN for t = 0; for the other intervals the quotient is compared
\* by cross-multiplication.
innerLoopRuns(n, t, intervalVal) ==
    IF intervalVal.v = 0 THEN t > 0
    ELSE IF intervalVal.v > 0 THEN n * intervalVal.v <= t
    ELSE n * intervalVal.v >= t

\* dose * Math.exp(-k * (t - doseTime)) in mg, with k = Math.log(2) / halfLife
\* and elapsed = t - doseTime >= 0. For halfLife = 0, k is Infinity: the
\* exponent is NaN when elapsed is 0, and the exponential is 0 otherwise.
basicTerm(doseVal, halfLifeVal, elapsed) ==
    IF halfLifeVal.v = 0
    THEN IF elapsed = 0 THEN NaN ELSE Num(0)
    ELSE Num((doseVal.v * ExpNeg((LN2 * elapsed) \div halfLifeVal.v)) \div ExpScale)

\* conc += x
basicAdd(conc, x) ==
    IF IsNaN(JsAdd(conc, x)) THEN NaN ELSE Num(Min2(ConcLimit, JsAdd(conc, x).v))

\* The test of for (let t = 0; t <= duration; t++): enter the body, or leave
\* the loop and finish the render.
outerLoopTest ==
    /\ basicPc = "outerTest"
    /\ IF JsLe(Num(basicT), basicDuration)
       THEN /\ basicConc' = Num(0)
            /\ basicN' = 0
            /\ basicPc' = "innerTest"
       ELSE /\ basicPc' = "idle"
            /\ UNCHANGED <<basicConc, basicN>>
    /\ UNCHANGED <<basicDose, basicInterval, basicHalfLife, basicDuration,
                   basicT, basicData, uiVars, callVars>>

\* The test of for (let n = 0; n <= t / interval; n++): enter the body, or
\* leave the loop, push the sample and step t.
innerLoopTest ==
    /\ basicPc = "innerTest"
    /\ IF innerLoopRuns(basicN, basicT, basicInterval)
       THEN /\ basicPc' = "innerBody"
            /\ UNCHANGED <<basicData, basicT>>
       ELSE /\ basicData' = Append(basicData, [time |-> basicT, concentration |-> basicConc])
            /\ basicT' = basicT + 1
            /\ basicPc' = "outerTest"
    /\ UNCHANGED <<basicDose, basicInterval, basicHalfLife, basicDuration,
                   basicN, basicConc, uiVars, callVars>>

\* The body of the inner loop, then n++.
innerLoopBody ==
    /\ basicPc = "innerBody"
    /\ LET doseTime == basicN * basicInterval.v
       IN  basicConc' = IF basicT >= doseTime
                        THEN basicAdd(basicConc, basicTerm(basicDose, basicHalfLife, basicT - doseTime))
                        ELSE basicConc
    /\ basicN' = IF basicN < CounterLimit THEN basicN + 1 ELSE basicN
    /\ basicPc' = "innerTest"
    /\ UNCHANGED <<basicDose, basicInterval, basicHalfLife, basicDuration,
                   basicT, basicData, uiVars, callVars>>

\* The statements of one render.
basicRenderStep == outerLoopTest \/ innerLoopTest \/ innerLoopBody

BasicInit ==
    /\ UiInit
    /\ CallIdle
    /\ BasicDefaults
    /\ basicT = 0
    /\ basicN = 0
    /\ basicConc = Num(0)
    /\ basicData = <<>>
    /\ basicPc = "outerTest"

BasicNext ==
    \/ \E text \in BasicDoseTexts : basicSetDose(text)
    \/ \E text \in BasicIntervalTexts : basicSetInterval(text)
    \/ \E text \in BasicHalfLifeTexts : basicSetHalfLife(text)
    \/ \E text \in BasicDurationTexts : basicSetDuration(text)
    \/ outerLoopTest
    \/ innerLoopTest
    \/ innerLoopBody

\* The engine runs a render to its end, if it has one; nothing obliges the
\* user to edit a field.
BasicSpec == BasicInit /\ [][BasicNext]_vars /\ WF_vars(basicRenderStep)

\* C4: whatever the field values, generating the sample sequence terminates:
\* every render that has begun comes to its end.
C4_SampleGenerationTerminates == (basicPc # "idle") ~> (basicPc = "idle")

\* A render that has ended without a sample, and one whose samples are not
\* all defined.
BasicOutputEmpty == basicPc = "idle" /\ Len(basicData) = 0

BasicOutputUndefined == basicPc = "idle" /\ \E i \in 1..Len(basicData) : IsNaN(basicData[i].concentration)

\* ------------------------------------------------------------ claims on the functions called on their own

Returned(name) == fn = name /\ callPc = "return"

\* The dose indices the claim lets contribute at time t.
DueDoses(t, dosingIntervalVal, numberOfDosesVal) ==
    {i \in 0..(numberOfDosesVal - 1) : i * dosingIntervalVal <= t}

\* The sum of single[t - i * interval] over a set of dose indices.
RECURSIVE SumOverDoses(_, _, _, _)
SumOverDoses(doses, t, single, dosingIntervalVal) ==
    IF doses = {} THEN 0
    ELSE LET i == CHOOSE j \in doses : TRUE
         IN  single[t - i * dosingIntervalVal].v
             + SumOverDoses(doses \ {i}, t, single, dosingIntervalVal)

\* The number of doses calculateMultipleDoses lets contribute at time t.
ContributingAt(t, dosingIntervalVal, numberOfDosesVal) ==
    calculateMultipleDoses(t, unitDose(t), dosingIntervalVal, numberOfDosesVal).v

\* C2: calculateMultipleDoses returns exactly the sum of the single-dose
\* response at t - i * interval over the dose indices i in 0 .. n-1 with
\* i * interval <= t; the number of contributing doses is
\* min(n, floor(t / interval) + 1), never exceeds n, and does not decrease
\* as t grows.
C2_SuperpositionOverDueDoses ==
    Returned("calculateMultipleDoses") =>
        LET t == args.t
            interval == args.dosingIntervalVal
            n == args.numberOfDosesVal
            due == DueDoses(t, interval, n)
        IN  /\ result[1].total = Num(SumOverDoses(due, t, singleDoseFuncOfCall(t), interval))
            /\ result[1].contributing = Num(Cardinality(due))
            /\ result[1].contributing.v = Min2(n, t \div interval + 1)
            /\ result[1].contributing.v <= n
            /\ \A k \in 0..(t \div QueryStep) :
                   ContributingAt(k * QueryStep, interval, n) <= result[1].contributing.v

\* A call at the very time of a later dose, with doses still to come.
C2_Witness ==
    /\ Returned("calculateMultipleDoses")
    /\ args.t > 0
    /\ args.t % args.dosingIntervalVal = 0
    /\ result[1].contributing.v > 1
    /\ result[1].contributing.v < args.numberOfDosesVal
    /\ result[1].total.v > 0

\* C3: whatever the raw field values (zero, negative, empty, not a number),
\* the normalized dose count is at least 1, the dosing interval, ke, ka and
\* the volume are strictly positive, the dose is not negative, and the
\* bioavailability lies in [0, 1]; none of them is NaN.
C3_NormalizedParametersInRange ==
    Returned("Normalize") =>
        LET p == result[1]
        IN  /\ JsGe(p.nDose, Num(MinDoses))
            /\ JsGt(p.intv, Num(0))
            /\ JsGt(p.numericKe, Num(0))
            /\ JsGt(p.numericKa, Num(0))
            /\ JsGt(p.numericV, Num(0))
            /\ JsGe(p.numericDose, Num(0))
            /\ JsGe(p.numericF, Num(0))
            /\ JsLe(p.numericF, Num(MaxF))

\* Every rate and the volume unusable as typed, and all of them floored.
C3_Witness ==
    /\ Returned("Normalize")
    /\ args.ke = Numeral(-2500)
    /\ args.ka = BadText
    /\ args.volume = EmptyText
    /\ args.numberOfDoses = Numeral(50)
    /\ args.bioavailability = Numeral(2500)
    /\ result[1].numericKe = Num(epsilon)
    /\ result[1].numericV = Num(MinVolume)
    /\ result[1].nDose = Num(MinDoses)

\* C5: in every sample sequence of simulatePK, complete or under
\* construction, the first time is 0 and each following time is exactly
\* 0.25 h after the one before, hence strictly greater.
C5_SamplesEveryQuarterHourFromZero ==
    (fn = "simulatePK" /\ Len(result) > 0) =>
        /\ result[1].time = 0
        /\ \A i \in 1..(Len(result) - 1) :
               /\ result[i + 1].time - result[i].time = Dt
               /\ result[i + 1].time > result[i].time

\* A complete sequence of more than 100 samples.
C5_Witness == Returned("simulatePK") /\ Len(result) > 100

\* C6 as stated: the time of the last sample equals the horizon
\* max(24, doseCount * interval + 24).
C6_LastSampleAtHorizon ==
    Returned("simulatePK") => result[Len(result)].time = maxTimeOfCall

\* C6, amended: the time of the last sample is the largest multiple of
\* 0.25 h that does not exceed the horizon (plus the 1e-9 h of the loop
\* test); it is the horizon itself exactly when the horizon is a multiple
\* of 0.25 h.
C6_LastSampleIsLastGridPointWithinHorizon ==
    Returned("simulatePK") =>
        LET last == result[Len(result)].time
        IN  /\ last % Dt = 0
            /\ last <= maxTimeOfCall + LoopSlack
            /\ maxTimeOfCall + LoopSlack - last < Dt
            /\ (last = maxTimeOfCall) <=> (maxTimeOfCall % Dt = 0)

\* A complete sequence whose horizon is off the 0.25 h grid.
C6_Witness ==
    /\ Returned("simulatePK")
    /\ maxTimeOfCall % Dt # 0
    /\ result[Len(result)].time < maxTimeOfCall

\* The sample the last pass of the AUC loop took in, once a pass has run.
AucLastSample == aucData[loopT - 1]

C13_AtMostOneExportInFlight ==
    /\ [](exportCall <= 1)
    /\ [](alertShown # "Chart not found")
    /\ [][exportChartAsPNG => (~exporting /\ Len(data) > 0 /\ chartRef # "null")]_vars
    /\ [][Len(data) > 0 => Len(data') > 0]_vars

\* An export is in flight over the samples of a run, and Download cannot be
\* clicked although there are samples.
C13_Witness ==
    /\ exportCall = 1
    /\ exporting
    /\ Len(data) > 0
    /\ ~DownloadEnabled
    /\ alertShown = "none"

====
